---- MODULE Spec2Model ----
(***************************************************************************)
(* Transaction tracker: the ledger (Transaction table), the balance cache  *)
(* (redis keys balance:<instant>), the request handlers of the             *)
(* transaction controller and the background recomputation of              *)
(* utils/utility.js.  Instants are small integers, amounts are integers.   *)
(***************************************************************************)
EXTENDS Integers, Sequences, FiniteSets, TLC

\* ---------------------------------------------------------------- bounds
MaxTs == 2          \* instants 1..MaxTs are not in the future
MaxAmt == 1         \* valid amounts are 1..MaxAmt
MaxReqs == 2        \* requests started in one behaviour
MaxBulk == 1        \* records in one bulk load
MaxLog == 2         \* rows of a ledger the detector is run on
MaxLogAmt == 3      \* amounts of those rows
MaxPages == 3       \* pages one detector run fetches
MaxRuns == 2        \* consecutive detector runs
MaxInstants == 2    \* instants handed to one getBalancesAtTimestamps call
MaxBatch == 2       \* records in one bulk load served on its own

Procs == {1, 2}     \* concurrently served requests (async handlers)

\* ------------------------------------------------- raw request inputs (JS)
Absent == -100      \* undefined / field not supplied
NotANumber == -101  \* a value parseFloat / new Date cannot parse
Future == MaxTs + 1 \* an instant later than the clock
NoVal == -102       \* redis.get returned null
ZeroStr == -103     \* the string "0": truthy, parseFloat gives 0

Instants == 1..MaxTs
TsIn == Instants \cup {Absent, NotANumber, Future}
TypeIn == {"", "IN", "OUT", "XX"}
AmtIn == (1..MaxAmt) \cup {Absent, NotANumber, 0, -1, ZeroStr}

\* request bodies: every well-formed body, and the bodies that differ from a
\* well-formed one in a single field
Body(ts, ty, am) == [timestamp |-> ts, type |-> ty, amount |-> am]
ValidBodyIn ==
  {Body(ts, ty, am) : ts \in Instants, ty \in {"IN", "OUT"}, am \in 1..MaxAmt}
BodyIn ==
  ValidBodyIn
  \cup {Body(ts, "IN", 1) : ts \in TsIn}
  \cup {Body(1, ty, 1) : ty \in TypeIn}
  \cup {Body(1, "OUT", am) : am \in AmtIn}
\* update bodies may omit any field
ValidPartialBodyIn ==
  {Body(ts, ty, am) : ts \in Instants \cup {Absent}, ty \in {"", "IN", "OUT"},
                      am \in (1..MaxAmt) \cup {Absent}}
PartialBodyIn == ValidPartialBodyIn \cup BodyIn

Falsy(v) == v \in {Absent, 0}
isNaN(v) == v = NotANumber
parseFloat(v) == IF v = ZeroStr THEN 0 ELSE v
isFuture(d) == d > MaxTs

VARIABLES log, nextId, ver, cache, aggr, reply, req, started, scheduled,
          markers, summaries, tasks, runs

\* the derived tables and the background recomputations
bgvars == <<summaries, tasks, runs>>

vars == <<log, nextId, ver, cache, aggr, reply, req, started, scheduled,
          markers, summaries, tasks, runs>>

\* ------------------------------------------------------------ the oracle
Signed(r) == IF r.type = "IN" THEN r.amount ELSE 0 - r.amount

RECURSIVE SumSigned(_)
SumSigned(S) ==
  IF S = {} THEN 0
  ELSE LET r == CHOOSE x \in S : TRUE IN Signed(r) + SumSigned(S \ {r})

\* SELECT COALESCE(SUM(CASE ...), 0) FROM "Transaction" WHERE timestamp <= t
BalanceQuery(l, t) == SumSigned({r \in l : r.timestamp <= t})

\* ... WHERE timestamp <= t AND id != excludeId
getBalanceExcludingTransaction(l, t, excludeId) ==
  SumSigned({r \in l : r.timestamp <= t /\ r.id # excludeId})

Ids(l) == {r.id : r \in l}
Row(l, i) == CHOOSE r \in l : r.id = i

\* ------------------------------------------------- background recomputation
Tasks == {1, 2}     \* recomputations running at the same time

DaySpan == 1        \* instants in one calendar day
DayOf(t) == (t + DaySpan - 1) \div DaySpan
StartOf(d) == (d - 1) * DaySpan + 1
Today == DayOf(MaxTs)
Days == 1..Today

NoRow == [balance |-> 0, percentChange |-> 0, transactionCount |-> -1,
          inAmount |-> 0, outAmount |-> 0]
NoTask == [pc |-> "idle", root |-> 0, day |-> 0, row |-> NoRow, cursor |-> 0,
           runningBalance |-> 0, invalidTxns |-> <<>>, pages |-> 0,
           status |-> ""]

\* ------------------------------------------------------------- requests
\* the redis keys invalid_transaction_count and transaction_stats
NoStats == [totalTransactions |-> NoVal, currentBalance |-> 0, ver |-> 0]
NoAggr == [count |-> NoVal, stats |-> NoStats]

Idle == [kind |-> "none", pc |-> "idle", timestamp |-> 0, type |-> "",
         amount |-> 0, txn |-> 0, existingTs |-> 0, omitted |-> {}, bal |-> 0,
         balVer |-> 0, keys |-> {}, root |-> 0, commitVer |-> 0, resp |-> ""]

Done(kind, resp) == [Idle EXCEPT !.kind = kind, !.pc = "done", !.resp = resp]

\* a new request is served in the lowest free slot
Free(p) ==
  /\ req[p].pc \in {"idle", "done"}
  /\ \A q \in Procs : q < p => req[q].pc \notin {"idle", "done"}
  /\ started < MaxReqs

Init ==
  /\ log \in {{}, {[id |-> 1, timestamp |-> 1, type |-> "IN", amount |-> 1]}}
  /\ nextId = Cardinality(log) + 1
  /\ ver = 0
  /\ cache = [k \in Instants |-> [val |-> NoVal, ver |-> 0]]
  /\ aggr = NoAggr
  /\ reply = <<>>
  /\ req = [p \in Procs |-> Idle]
  /\ started = 0
  /\ scheduled = <<>>
  /\ markers = {}
  /\ summaries = [d \in Days |-> NoRow]
  /\ tasks = [T \in Tasks |-> NoTask]
  /\ runs = <<>>

\* ------------------------------------------------------ createTransaction
CreateValidation(timestamp, type, amount) ==
  IF Falsy(timestamp) \/ type = "" \/ Falsy(amount)
    THEN "400 Missing required fields"
  ELSE IF type \notin {"IN", "OUT"} THEN "400 Invalid transaction type"
  ELSE IF isNaN(timestamp) THEN "400 Invalid timestamp format"
  ELSE IF isFuture(timestamp) THEN "400 Cannot use future timestamp"
  ELSE IF isNaN(parseFloat(amount)) \/ parseFloat(amount) <= 0
    THEN "400 Amount must be a positive number"
  ELSE "ok"

\* POST / with the body `body`: validation, then the first await
createTransaction_body(p, body) ==
  /\ LET timestamp == body.timestamp
         type == body.type
         amount == body.amount
         v == CreateValidation(timestamp, type, amount) IN
       req' = [req EXCEPT ![p] =
                 IF v # "ok" THEN Done("create", v)
                 ELSE [Idle EXCEPT !.kind = "create", !.timestamp = timestamp,
                                   !.type = type, !.amount = parseFloat(amount),
                                   !.pc = IF type = "OUT" THEN "get" ELSE "write"]]
  /\ started' = started + 1
  /\ UNCHANGED <<log, nextId, ver, cache, scheduled, markers, aggr, reply, bgvars>>

createTransaction(p) ==
  Free(p) /\ \E body \in BodyIn : createTransaction_body(p, body)

\* getBalanceAtTimestamp: redis.get(cacheKey)
getBalanceAtTimestamp_get(p) ==
  /\ req[p].pc = "get"
  /\ LET c == cache[req[p].timestamp] IN
       req' = [req EXCEPT ![p] =
                 IF c.val # NoVal
                   THEN [@ EXCEPT !.bal = c.val, !.balVer = c.ver, !.pc = "write"]
                   ELSE [@ EXCEPT !.pc = "query"]]
  /\ UNCHANGED <<log, nextId, ver, cache, started, scheduled, markers, aggr, reply, bgvars>>

\* getBalanceAtTimestamp: the SUM query
getBalanceAtTimestamp_query(p) ==
  /\ req[p].pc = "query"
  /\ req' = [req EXCEPT ![p] = [@ EXCEPT !.bal = BalanceQuery(log, req[p].timestamp),
                                        !.balVer = ver, !.pc = "setEx"]]
  /\ UNCHANGED <<log, nextId, ver, cache, started, scheduled, markers, aggr, reply, bgvars>>

\* getBalanceAtTimestamp: redis.setEx(cacheKey, 300, balance)
getBalanceAtTimestamp_setEx(p) ==
  /\ req[p].pc = "setEx"
  /\ cache' = [cache EXCEPT ![req[p].timestamp] =
                  [val |-> req[p].bal, ver |-> req[p].balVer]]
  /\ req' = [req EXCEPT ![p].pc = "write"]
  /\ UNCHANGED <<log, nextId, ver, started, scheduled, markers, aggr, reply, bgvars>>

InsufficientCreate_offByOne(type, amount, bal) == type = "OUT" /\ amount > bal + 1

InsufficientCreate_strict(type, amount, bal) == type = "OUT" /\ amount >= bal

InsufficientCreate(type, amount, bal) == type = "OUT" /\ amount > bal

\* the balance gate and tx.transaction.create
createTransaction_write(p) ==
  /\ req[p].pc = "write" /\ req[p].kind = "create"
  /\ IF InsufficientCreate(req[p].type, req[p].amount, req[p].bal)
       THEN /\ req' = [req EXCEPT ![p] = Done("create", "400 Insufficient balance")]
            /\ UNCHANGED <<log, nextId, ver>>
       ELSE /\ log' = log \cup {[id |-> nextId, timestamp |-> req[p].timestamp,
                                  type |-> req[p].type, amount |-> req[p].amount]}
            /\ nextId' = nextId + 1
            /\ ver' = ver + 1
            /\ req' = [req EXCEPT ![p] = [@ EXCEPT !.pc = "keys", !.txn = nextId,
                                 !.root = req[p].timestamp, !.commitVer = ver + 1]]
  /\ UNCHANGED <<cache, started, scheduled, markers, aggr, reply, bgvars>>

\* --------------------------------------------------- invalidateBalanceCache
\* redis.keys("balance:*")
invalidateBalanceCache_keys(p) ==
  /\ req[p].pc = "keys"
  /\ req' = [req EXCEPT ![p] = [@ EXCEPT !.pc = "del",
                 !.keys = {k \in Instants : cache[k].val # NoVal}]]
  /\ UNCHANGED <<log, nextId, ver, cache, started, scheduled, markers, aggr, reply, bgvars>>

keysToDelete_all(keys, fromDate) == keys

keysToDelete(keys, fromDate) == {k \in keys : k >= fromDate}

Success(kind) == IF kind = "create" THEN "201" ELSE "200"

\* redis.del(keysToDelete) and redis.del("invalid_transaction_count"); then
\* setImmediate(...) and the response
invalidateBalanceCache_del(p) ==
  /\ req[p].pc = "del"
  /\ cache' = [k \in Instants |->
                 IF k \in keysToDelete(req[p].keys, req[p].root)
                   THEN [val |-> NoVal, ver |-> 0] ELSE cache[k]]
  /\ aggr' = [aggr EXCEPT !.count = NoVal]
  /\ scheduled' = Append(scheduled, req[p].root)
  /\ req' = [req EXCEPT ![p] = [@ EXCEPT !.pc = "done", !.resp = Success(req[p].kind),
                                        !.keys = {}, !.existingTs = 0]]
  /\ UNCHANGED <<log, nextId, ver, started, markers, reply, bgvars>>

\* ------------------------------------------------------ updateTransaction
UpdateValidation_noAmount(timestamp, date, amount, newAmount) ==
  IF ~Falsy(timestamp) /\ isNaN(date) THEN "400 Invalid timestamp format"
  ELSE IF isFuture(date) THEN "400 Cannot use future timestamp"
  ELSE "ok"

UpdateValidation(timestamp, date, amount, newAmount) ==
  IF ~Falsy(timestamp) /\ isNaN(date) THEN "400 Invalid timestamp format"
  ELSE IF isFuture(date) THEN "400 Cannot use future timestamp"
  ELSE IF ~Falsy(amount) /\ (isNaN(newAmount) \/ newAmount <= 0)
    THEN "400 Amount must be a positive number"
  ELSE "ok"

\* the fields of req.body that are undefined
Omitted(body) ==
  {f \in {"timestamp", "type", "amount"} :
     \/ f = "timestamp" /\ body.timestamp = Absent
     \/ f = "type" /\ body.type = ""
     \/ f = "amount" /\ body.amount = Absent}

\* PUT /:id with the body `body`: findUnique, the defaults for omitted
\* fields and the validation
updateTransaction_body(p, id, body) ==
  /\   IF id \notin Ids(log)
         THEN req' = [req EXCEPT ![p] = Done("update", "404 Transaction not found")]
         ELSE LET timestamp == body.timestamp
                  type == body.type
                  amount == body.amount
                  existing == Row(log, id)
                  date == IF Falsy(timestamp) THEN existing.timestamp ELSE timestamp
                  newType == IF type = "" THEN existing.type ELSE type
                  newAmount == IF Falsy(amount) THEN existing.amount
                                                ELSE parseFloat(amount)
                  v == UpdateValidation(timestamp, date, amount, newAmount)
              IN req' = [req EXCEPT ![p] =
                   IF v # "ok" THEN Done("update", v)
                   ELSE [Idle EXCEPT !.kind = "update", !.txn = id,
                           !.timestamp = date, !.type = newType,
                           !.amount = newAmount,
                           !.existingTs = existing.timestamp,
                           !.omitted = Omitted(body),
                           !.pc = IF newType = "OUT" THEN "excluding" ELSE "write"]]
  /\ started' = started + 1
  /\ UNCHANGED <<log, nextId, ver, cache, scheduled, markers, aggr, reply, bgvars>>

updateTransaction(p) ==
  /\ Free(p)
  /\ \E id \in 1..nextId, body \in PartialBodyIn :
       updateTransaction_body(p, id, body)

\* the query of getBalanceExcludingTransaction
updateTransaction_excluding(p) ==
  /\ req[p].pc = "excluding"
  /\ req' = [req EXCEPT ![p] = [@ EXCEPT !.pc = "write", !.balVer = ver,
               !.bal = getBalanceExcludingTransaction(log, req[p].timestamp, req[p].txn)]]
  /\ UNCHANGED <<log, nextId, ver, cache, started, scheduled, markers, aggr, reply, bgvars>>

InsufficientUpdate_offByOne(newType, newAmount, balanceExcludingThis) ==
  newType = "OUT" /\ newAmount > balanceExcludingThis + 1

InsufficientUpdate(newType, newAmount, balanceExcludingThis) ==
  newType = "OUT" /\ newAmount > balanceExcludingThis

earliestDate(existingTs, date) == IF existingTs < date THEN existingTs ELSE date

\* the balance gate and tx.transaction.update
updateTransaction_write(p) ==
  /\ req[p].pc = "write" /\ req[p].kind = "update"
  /\ IF InsufficientUpdate(req[p].type, req[p].amount, req[p].bal)
       THEN /\ req' = [req EXCEPT ![p] = Done("update", "400 Insufficient balance")]
            /\ UNCHANGED <<log, nextId, ver>>
     ELSE IF req[p].txn \notin Ids(log) \/ req[p].type \notin {"IN", "OUT"}
       THEN \* the record is gone, or the enum rejects the type: update throws
            /\ req' = [req EXCEPT ![p] = Done("update", "500 Failed to update transaction")]
            /\ UNCHANGED <<log, nextId, ver>>
       ELSE /\ log' = (log \ {Row(log, req[p].txn)}) \cup
                        {[id |-> req[p].txn, timestamp |-> req[p].timestamp,
                          type |-> req[p].type, amount |-> req[p].amount]}
            /\ ver' = ver + 1
            /\ req' = [req EXCEPT ![p] = [@ EXCEPT !.pc = "keys", !.omitted = {},
                         !.root = earliestDate(req[p].existingTs, req[p].timestamp),
                         !.commitVer = ver + 1]]
            /\ UNCHANGED nextId
  /\ UNCHANGED <<cache, started, scheduled, markers, aggr, reply, bgvars>>

\* ------------------------------------------------------ deleteTransaction
\* DELETE /:id with the id `id`: tx.transaction.findUnique
deleteTransaction_id(p, id) ==
  /\ req' = [req EXCEPT ![p] =
               IF id \notin Ids(log)
                 THEN Done("delete", "404 Transaction not found")
                 ELSE [Idle EXCEPT !.kind = "delete", !.txn = id, !.pc = "write",
                         !.timestamp = Row(log, id).timestamp,
                         !.existingTs = Row(log, id).timestamp]]
  /\ started' = started + 1
  /\ UNCHANGED <<log, nextId, ver, cache, scheduled, markers, aggr, reply, bgvars>>

deleteTransaction(p) ==
  /\ Free(p)
  /\ \E id \in 1..nextId : deleteTransaction_id(p, id)

\* tx.transaction.delete
deleteTransaction_write(p) ==
  /\ req[p].pc = "write" /\ req[p].kind = "delete"
  /\ IF req[p].txn \notin Ids(log)
       THEN /\ req' = [req EXCEPT ![p] = Done("delete", "500 Failed to delete transaction")]
            /\ UNCHANGED <<log, ver, markers>>
       ELSE /\ log' = log \ {Row(log, req[p].txn)}
            \* InvalidTransaction.transactionId: ON DELETE CASCADE
            /\ markers' = markers \ {req[p].txn}
            /\ ver' = ver + 1
            /\ req' = [req EXCEPT ![p] = [@ EXCEPT !.pc = "keys",
                         !.root = req[p].timestamp, !.commitVer = ver + 1]]
  /\ UNCHANGED <<nextId, cache, started, scheduled, aggr, reply, bgvars>>

\* -------------------------------------------------- createBulkTransactions
BulkValidation(txn) ==
  IF Falsy(txn.timestamp) \/ txn.type = "" \/ Falsy(txn.amount)
    THEN "400 Invalid transaction data"
  ELSE IF txn.type \notin {"IN", "OUT"} THEN "400 Invalid transaction type"
  ELSE IF isNaN(txn.timestamp) \/ isFuture(txn.timestamp)
    THEN "400 Invalid timestamp"
  ELSE IF isNaN(parseFloat(txn.amount)) \/ parseFloat(txn.amount) <= 0
    THEN "400 Invalid amount"
  ELSE "ok"

\* the validation loop: the response of the first record that fails
BulkValidateAll_firstOnly(txns) ==
  IF txns = <<>> THEN "ok" ELSE BulkValidation(Head(txns))

RECURSIVE BulkValidateAll(_)
BulkValidateAll(txns) ==
  IF txns = <<>> THEN "ok"
  ELSE IF BulkValidation(Head(txns)) # "ok" THEN BulkValidation(Head(txns))
  ELSE BulkValidateAll(Tail(txns))

\* validatedTransactions.sort((a, b) => a.timestamp - b.timestamp), stable
RECURSIVE InsertSorted(_, _)
InsertSorted(s, x) ==
  IF s = <<>> THEN <<x>>
  ELSE IF Head(s).timestamp <= x.timestamp
    THEN <<Head(s)>> \o InsertSorted(Tail(s), x)
    ELSE <<x>> \o s

RECURSIVE SortByTimestamp(_)
SortByTimestamp(s) ==
  IF s = <<>> THEN <<>>
  ELSE InsertSorted(SortByTimestamp(SubSeq(s, 1, Len(s) - 1)), s[Len(s)])

BulkRecIn ==
  [timestamp : Instants, type : {"IN", "OUT"}, amount : {1}] \cup
  {Body(1, "IN", -1), Body(1, "XX", 1), Body(Future, "IN", 1), Body(1, "OUT", Absent)}

BulkIn == UNION {[1..n -> BulkRecIn] : n \in 0..MaxBulk}

\* prisma.transaction.createMany({data: batch, skipDuplicates: true}): the
\* Transaction table has no unique key besides the serial id
createMany(l, first, batch) ==
  l \cup {[id |-> first + i - 1, timestamp |-> batch[i].timestamp,
           type |-> batch[i].type, amount |-> batch[i].amount] : i \in 1..Len(batch)}

\* the array check, the validation loop, the sort and the insert
createBulkTransactions_body(p, transactions) ==
  /\   IF transactions = <<>>
         THEN /\ req' = [req EXCEPT ![p] =
                           Done("bulk", "400 Transactions array is required")]
              /\ UNCHANGED <<log, nextId, ver>>
       ELSE IF BulkValidateAll(transactions) # "ok"
         THEN /\ req' = [req EXCEPT ![p] = Done("bulk", BulkValidateAll(transactions))]
              /\ UNCHANGED <<log, nextId, ver>>
         ELSE LET validatedTransactions == SortByTimestamp(transactions) IN
              /\ log' = createMany(log, nextId, validatedTransactions)
              /\ nextId' = nextId + Len(validatedTransactions)
              /\ ver' = ver + 1
              /\ req' = [req EXCEPT ![p] = [Idle EXCEPT !.kind = "bulk",
                           !.pc = "flushDb", !.commitVer = ver + 1,
                           !.amount = Len(validatedTransactions)]]
  /\ started' = started + 1
  /\ UNCHANGED <<cache, scheduled, markers, aggr, reply, bgvars>>

createBulkTransactions(p) ==
  /\ Free(p)
  /\ \E transactions \in BulkIn : createBulkTransactions_body(p, transactions)

\* redis.flushDb() and the response; no recomputation is scheduled
createBulkTransactions_flushDb(p) ==
  /\ req[p].pc = "flushDb"
  /\ cache' = [k \in Instants |-> [val |-> NoVal, ver |-> 0]]
  /\ aggr' = NoAggr
  /\ req' = [req EXCEPT ![p] = [@ EXCEPT !.pc = "done", !.resp = "201"]]
  /\ UNCHANGED <<log, nextId, ver, started, scheduled, markers, reply, bgvars>>


\* the single-record mutations: POST /, PUT /:id, DELETE /:id
MutationNext ==
  \/ \E p \in Procs : createTransaction(p)
  \/ \E p \in Procs : getBalanceAtTimestamp_get(p)
  \/ \E p \in Procs : getBalanceAtTimestamp_query(p)
  \/ \E p \in Procs : getBalanceAtTimestamp_setEx(p)
  \/ \E p \in Procs : createTransaction_write(p)
  \/ \E p \in Procs : invalidateBalanceCache_keys(p)
  \/ \E p \in Procs : invalidateBalanceCache_del(p)
  \/ \E p \in Procs : updateTransaction(p)
  \/ \E p \in Procs : updateTransaction_excluding(p)
  \/ \E p \in Procs : updateTransaction_write(p)
  \/ \E p \in Procs : deleteTransaction(p)
  \/ \E p \in Procs : deleteTransaction_write(p)

MutationSpec == Init /\ [][MutationNext]_vars

\* all the routes of routes/transaction.js that write
Next ==
  \/ MutationNext
  \/ \E p \in Procs : createBulkTransactions(p)
  \/ \E p \in Procs : createBulkTransactions_flushDb(p)

Spec == Init /\ [][Next]_vars

\* every handler slot serves one request: two requests that may overlap in
\* any way
Fresh(p) == Free(p) /\ started < Cardinality(Procs)

PairNext ==
  \/ \E p \in Procs : Fresh(p) /\ \E body \in BodyIn : createTransaction_body(p, body)
  \/ \E p \in Procs : getBalanceAtTimestamp_get(p)
  \/ \E p \in Procs : getBalanceAtTimestamp_query(p)
  \/ \E p \in Procs : getBalanceAtTimestamp_setEx(p)
  \/ \E p \in Procs : createTransaction_write(p)
  \/ \E p \in Procs : invalidateBalanceCache_keys(p)
  \/ \E p \in Procs : invalidateBalanceCache_del(p)
  \/ \E p \in Procs :
       Fresh(p) /\ \E id \in 1..nextId, body \in PartialBodyIn :
                     updateTransaction_body(p, id, body)
  \/ \E p \in Procs : updateTransaction_excluding(p)
  \/ \E p \in Procs : updateTransaction_write(p)
  \/ \E p \in Procs : Fresh(p) /\ \E id \in 1..nextId : deleteTransaction_id(p, id)
  \/ \E p \in Procs : deleteTransaction_write(p)
  \/ \E p \in Procs :
       Fresh(p) /\ \E transactions \in BulkIn :
                     createBulkTransactions_body(p, transactions)
  \/ \E p \in Procs : createBulkTransactions_flushDb(p)

PairSpec == Init /\ [][PairNext]_vars

\* ---------------------------------------------------- getTransactionStats
\* GET /stats
getTransactionStats(p) ==
  /\ Free(p)
  /\ req' = [req EXCEPT ![p] = [Idle EXCEPT !.kind = "stats", !.pc = "statsGet"]]
  /\ started' = started + 1
  /\ UNCHANGED <<log, nextId, ver, cache, scheduled, markers, aggr, reply, bgvars>>

\* redis.get("transaction_stats"): a cached entry is the response
getTransactionStats_get(p) ==
  /\ req[p].pc = "statsGet"
  /\ req' = [req EXCEPT ![p] =
               IF aggr.stats # NoStats
                 THEN [Done("stats", "200") EXCEPT
                         !.amount = aggr.stats.totalTransactions,
                         !.bal = aggr.stats.currentBalance,
                         !.balVer = aggr.stats.ver]
                 ELSE [@ EXCEPT !.pc = "statsQuery"]]
  /\ UNCHANGED <<log, nextId, ver, cache, started, scheduled, markers, aggr, reply, bgvars>>

\* the count and the two aggregates (Promise.all)
getTransactionStats_query(p) ==
  /\ req[p].pc = "statsQuery"
  /\ req' = [req EXCEPT ![p] = [@ EXCEPT !.pc = "statsSetEx",
               !.amount = Cardinality(log),
               !.bal = SumSigned({r \in log : r.type = "IN"})
                       + SumSigned({r \in log : r.type = "OUT"}),
               !.balVer = ver]]
  /\ UNCHANGED <<log, nextId, ver, cache, started, scheduled, markers, aggr, reply, bgvars>>

\* redis.setEx("transaction_stats", 300, ...) and the response
getTransactionStats_setEx(p) ==
  /\ req[p].pc = "statsSetEx"
  /\ aggr' = [aggr EXCEPT !.stats = [totalTransactions |-> req[p].amount,
                                      currentBalance |-> req[p].bal,
                                      ver |-> req[p].balVer]]
  /\ req' = [req EXCEPT ![p] = [Done("stats", "200") EXCEPT
                                  !.amount = req[p].amount, !.bal = req[p].bal,
                                  !.balVer = req[p].balVer]]
  /\ UNCHANGED <<log, nextId, ver, cache, started, scheduled, markers, reply, bgvars>>

\* ------------------------------ getAllTransactions: the invalid count
\* GET /: the page query, then getInvalidTransactionCount()
getAllTransactions(p) ==
  /\ Free(p)
  /\ req' = [req EXCEPT ![p] = [Idle EXCEPT !.kind = "list", !.pc = "countGet"]]
  /\ started' = started + 1
  /\ UNCHANGED <<log, nextId, ver, cache, scheduled, markers, aggr, reply, bgvars>>

\* redis.get("invalid_transaction_count")
getInvalidTransactionCount_get(p) ==
  /\ req[p].pc = "countGet"
  /\ req' = [req EXCEPT ![p] =
               IF aggr.count # NoVal
                 THEN [Done("list", "200") EXCEPT !.amount = aggr.count]
                 ELSE [@ EXCEPT !.pc = "count"]]
  /\ UNCHANGED <<log, nextId, ver, cache, started, scheduled, markers, aggr, reply, bgvars>>

\* prisma.invalidTransaction.count()
getInvalidTransactionCount_count(p) ==
  /\ req[p].pc = "count"
  /\ req' = [req EXCEPT ![p] = [@ EXCEPT !.pc = "countSetEx",
                                        !.amount = Cardinality(markers)]]
  /\ UNCHANGED <<log, nextId, ver, cache, started, scheduled, markers, aggr, reply, bgvars>>

\* redis.setEx("invalid_transaction_count", 60, ...) and the response
getInvalidTransactionCount_setEx(p) ==
  /\ req[p].pc = "countSetEx"
  /\ aggr' = [aggr EXCEPT !.count = req[p].amount]
  /\ req' = [req EXCEPT ![p] = [Done("list", "200") EXCEPT !.amount = req[p].amount]]
  /\ UNCHANGED <<log, nextId, ver, cache, started, scheduled, markers, reply, bgvars>>

StatsNext ==
  \/ MutationNext
  \/ \E p \in Procs : getTransactionStats(p)
  \/ \E p \in Procs : getTransactionStats_get(p)
  \/ \E p \in Procs : getTransactionStats_query(p)
  \/ \E p \in Procs : getTransactionStats_setEx(p)
  \/ \E p \in Procs : getAllTransactions(p)
  \/ \E p \in Procs : getInvalidTransactionCount_get(p)
  \/ \E p \in Procs : getInvalidTransactionCount_count(p)
  \/ \E p \in Procs : getInvalidTransactionCount_setEx(p)

\* the single-record mutations together with GET /stats and GET /
StatsSpec == Init /\ [][StatsNext]_vars

\* ------------------------------------------------- bulk loads on their own
\* the records of a batch: two that pass the validation, one that does not
BatchRecIn == {Body(1, "IN", 1), Body(MaxTs, "OUT", 1), Body(1, "IN", -1)}
BatchIn == UNION {[1..n -> BatchRecIn] : n \in 0..MaxBatch}

BulkNext ==
  \/ \E p \in Procs :
       Free(p) /\ \E transactions \in BatchIn :
                    createBulkTransactions_body(p, transactions)
  \/ \E p \in Procs : createBulkTransactions_flushDb(p)

\* POST /bulk only
BulkSpec == Init /\ [][BulkNext]_vars

\* ------------------------------------------------ a redis call that rejects
\* redis.get rejects: the catch logs, the SUM query follows
getBalanceAtTimestamp_get_throws(p) ==
  /\ req[p].pc = "get"
  /\ req' = [req EXCEPT ![p].pc = "query"]
  /\ UNCHANGED <<log, nextId, ver, cache, started, scheduled, markers, aggr, reply, bgvars>>

\* redis.setEx rejects: the catch logs, the balance is returned
getBalanceAtTimestamp_setEx_throws(p) ==
  /\ req[p].pc = "setEx"
  /\ req' = [req EXCEPT ![p].pc = "write"]
  /\ UNCHANGED <<log, nextId, ver, cache, started, scheduled, markers, aggr, reply, bgvars>>

\* redis.keys or redis.del rejects: the catch of invalidateBalanceCache logs,
\* nothing (more) is deleted; then setImmediate(...) and the response
invalidateBalanceCache_throws(p) ==
  /\ req[p].pc \in {"keys", "del"}
  /\ scheduled' = Append(scheduled, req[p].root)
  /\ req' = [req EXCEPT ![p] = [@ EXCEPT !.pc = "done", !.resp = Success(req[p].kind),
                                        !.keys = {}, !.existingTs = 0]]
  /\ UNCHANGED <<log, nextId, ver, cache, started, markers, aggr, reply, bgvars>>

\* redis.flushDb rejects inside the try of the handler: the catch responds
createBulkTransactions_flushDb_throws(p) ==
  /\ req[p].pc = "flushDb"
  /\ req' = [req EXCEPT ![p] = [@ EXCEPT !.pc = "done",
                                        !.resp = "500 Failed to create bulk transactions"]]
  /\ UNCHANGED <<log, nextId, ver, cache, started, scheduled, markers, aggr, reply, bgvars>>

FaultNext ==
  \/ Next
  \/ \E p \in Procs : getBalanceAtTimestamp_get_throws(p)
  \/ \E p \in Procs : getBalanceAtTimestamp_setEx_throws(p)
  \/ \E p \in Procs : invalidateBalanceCache_throws(p)
  \/ \E p \in Procs : createBulkTransactions_flushDb_throws(p)

\* the routes that write, served with a cache that may fail
FaultSpec == Init /\ [][FaultNext]_vars
\* ================================================= utils/utility.js
batchSize == 10000      \* take: batchSize
flushSize == 1000       \* invalidTxns.length >= 1000

Max0(x) == IF x < 0 THEN 0 ELSE x

\* the sequences that list every row of S once, timestamp ascending: the
\* orders ORDER BY timestamp ASC may return (rows of equal timestamp come in
\* an order the database chooses per query)
ChronOrders(S) ==
  {o \in [1..Cardinality(S) -> S] :
     /\ \A i, j \in 1..Cardinality(S) : i # j => o[i] # o[j]
     /\ \A i, j \in 1..Cardinality(S) : i < j => o[i].timestamp <= o[j].timestamp}

\* the rows the cursor query selects: all rows when there is no cursor, the
\* rows not earlier than the cursor row otherwise (none when the cursor row
\* is gone)
CursorRows(l, cursor) ==
  IF cursor = 0 THEN l
  ELSE IF cursor \notin Ids(l) THEN {}
  ELSE {r \in l : r.timestamp >= Row(l, cursor).timestamp}

\* cursor: {id: cursor}, skip: 1 -- the rows that follow the cursor row
AfterCursor(o, cursor) ==
  IF cursor = 0 \/ o = <<>> THEN o
  ELSE LET at == CHOOSE i \in 1..Len(o) : o[i].id = cursor
       IN SubSeq(o, at + 1, Len(o))

Take(o, n) == IF Len(o) <= n THEN o ELSE SubSeq(o, 1, n)

\* the for loop with runningBalance = newBalance
RECURSIVE ScanPage_unclamped(_, _, _)
ScanPage_unclamped(transactions, runningBalance, invalidTxns) ==
  IF transactions = <<>>
    THEN [runningBalance |-> runningBalance, invalidTxns |-> invalidTxns]
  ELSE LET txn == Head(transactions)
           newBalance == IF txn.type = "IN" THEN runningBalance + txn.amount
                                            ELSE runningBalance - txn.amount
       IN ScanPage_unclamped(Tail(transactions), newBalance,
                             IF newBalance < 0 THEN Append(invalidTxns, txn.id)
                                               ELSE invalidTxns)

\* the for loop over one page
RECURSIVE ScanPage(_, _, _)
ScanPage(transactions, runningBalance, invalidTxns) ==
  IF transactions = <<>>
    THEN [runningBalance |-> runningBalance, invalidTxns |-> invalidTxns]
  ELSE LET txn == Head(transactions)
           newBalance == IF txn.type = "IN" THEN runningBalance + txn.amount
                                            ELSE runningBalance - txn.amount
       IN ScanPage(Tail(transactions), Max0(newBalance),
                   IF newBalance < 0 THEN Append(invalidTxns, txn.id)
                                     ELSE invalidTxns)

SeqRange(q) == {q[i] : i \in 1..Len(q)}

\* prisma.invalidTransaction.createMany: one INSERT; transactionId is unique
\* and references Transaction.id
CanInsertMarkers(m, l, data) ==
  /\ \A i, j \in 1..Len(data) : i # j => data[i] # data[j]
  /\ SeqRange(data) \cap m = {}
  /\ SeqRange(data) \subseteq Ids(l)

\* ------------------------------------------------ recalculateFromTimestamp
\* toFixed(2) of n / d, in hundredths
Round(n, d) ==
  LET nn == IF d < 0 THEN 0 - n ELSE n
      dd == IF d < 0 THEN 0 - d ELSE d
  IN IF nn >= 0 THEN (2 * nn + dd) \div (2 * dd)
                ELSE 0 - ((2 * (0 - nn) + dd) \div (2 * dd))

\* SELECT COALESCE(SUM(CASE ...), 0) ... WHERE timestamp < nextDate
dayBalanceQuery(l, date) ==
  SumSigned({r \in l : r.timestamp < StartOf(date + 1)})

dayTxnsQuery_upTo(l, date) ==
  LET dayTxns == {r \in l : r.timestamp < StartOf(date + 1)}
  IN [transactionCount |-> Cardinality(dayTxns),
      inAmount |-> SumSigned({r \in dayTxns : r.type = "IN"}),
      outAmount |-> 0 - SumSigned({r \in dayTxns : r.type = "OUT"})]

\* SELECT COUNT(*), SUM(IN amounts), SUM(OUT amounts) ... of the day
dayTxnsQuery(l, date) ==
  LET dayTxns == {r \in l : r.timestamp >= StartOf(date)
                             /\ r.timestamp < StartOf(date + 1)}
  IN [transactionCount |-> Cardinality(dayTxns),
      inAmount |-> SumSigned({r \in dayTxns : r.type = "IN"}),
      outAmount |-> 0 - SumSigned({r \in dayTxns : r.type = "OUT"})]

\* SELECT COALESCE(SUM(CASE ...), 0) ... WHERE timestamp < date
prevBalanceQuery(l, date) == SumSigned({r \in l : r.timestamp < StartOf(date)})

percentChange_reversed(currentBalance, previousBalance) ==
  IF previousBalance = 0 THEN 0
  ELSE Round((previousBalance - currentBalance) * 10000, previousBalance)

\* percentChange.toFixed(2), in hundredths of a percent
percentChange(currentBalance, previousBalance) ==
  IF previousBalance = 0 THEN 0
  ELSE Round((currentBalance - previousBalance) * 10000, previousBalance)

\* the row one pass of the loop writes when its three queries read the log l
DayRow(l, date) ==
  [balance |-> dayBalanceQuery(l, date),
   percentChange |-> percentChange(dayBalanceQuery(l, date),
                                   prevBalanceQuery(l, date)),
   transactionCount |-> dayTxnsQuery(l, date).transactionCount,
   inAmount |-> dayTxnsQuery(l, date).inAmount,
   outAmount |-> dayTxnsQuery(l, date).outAmount]

\* a recomputation is started in the lowest free slot
FreeTask(T) ==
  /\ tasks[T].pc \in {"idle", "done"}
  /\ \A U \in Tasks : U < T => tasks[U].pc \notin {"idle", "done"}

\* the setImmediate callback: recalculateFromTimestamp(date) begins
recalculateFromTimestamp(T) ==
  /\ scheduled # <<>>
  /\ FreeTask(T)
  /\ tasks' = [tasks EXCEPT ![T] = [NoTask EXCEPT !.pc = "dayBalance",
                 !.root = Head(scheduled), !.day = DayOf(Head(scheduled))]]
  /\ scheduled' = Tail(scheduled)
  /\ UNCHANGED <<log, nextId, ver, cache, aggr, reply, req, started, markers, summaries, runs>>

\* one pass of the loop over affectedDates: the balance up to the end of
\* the day
recalculateFromTimestamp_dayBalance(T) ==
  /\ tasks[T].pc = "dayBalance"
  /\ tasks' = [tasks EXCEPT ![T] = [@ EXCEPT !.pc = "dayTxns",
                 !.row = [NoRow EXCEPT !.balance =
                                         dayBalanceQuery(log, tasks[T].day)]]]
  /\ UNCHANGED <<log, nextId, ver, cache, aggr, reply, req, started, scheduled,
                 markers, summaries, runs>>

\* the count and the in / out amounts of the day
recalculateFromTimestamp_dayTxns(T) ==
  /\ tasks[T].pc = "dayTxns"
  /\ LET q == dayTxnsQuery(log, tasks[T].day) IN
       tasks' = [tasks EXCEPT ![T] = [@ EXCEPT !.pc = "prevBalance",
                   !.row = [tasks[T].row EXCEPT
                              !.transactionCount = q.transactionCount,
                              !.inAmount = q.inAmount,
                              !.outAmount = q.outAmount]]]
  /\ UNCHANGED <<log, nextId, ver, cache, aggr, reply, req, started, scheduled,
                 markers, summaries, runs>>

\* the balance before the day and the percentage change
recalculateFromTimestamp_prevBalance(T) ==
  /\ tasks[T].pc = "prevBalance"
  /\ tasks' = [tasks EXCEPT ![T] = [@ EXCEPT !.pc = "upsert",
                 !.row = [tasks[T].row EXCEPT !.percentChange =
                            percentChange(tasks[T].row.balance,
                                          prevBalanceQuery(log, tasks[T].day))]]]
  /\ UNCHANGED <<log, nextId, ver, cache, aggr, reply, req, started, scheduled,
                 markers, summaries, runs>>

upsert_accumulate(rows, date, row) ==
  [rows EXCEPT ![date] =
     IF rows[date] = NoRow THEN row
     ELSE [row EXCEPT !.transactionCount = rows[date].transactionCount
                                            + row.transactionCount]]

\* prisma.dailySummary.upsert({where: {date}, update: ..., create: ...}): date
\* is the unique key of DailySummary
upsert(rows, date, row) == [rows EXCEPT ![date] = row]

\* the upsert of the day, and the next day of affectedDates
recalculateFromTimestamp_upsert(T) ==
  /\ tasks[T].pc = "upsert"
  /\ summaries' = upsert(summaries, tasks[T].day, tasks[T].row)
  /\ tasks' = [tasks EXCEPT ![T] =
                 [@ EXCEPT !.day = tasks[T].day + 1, !.row = NoRow,
                           !.pc = IF tasks[T].day + 1 > Today THEN "deleteMany"
                                                               ELSE "dayBalance"]]
  /\ UNCHANGED <<log, nextId, ver, cache, aggr, reply, req, started, scheduled,
                 markers, runs>>

\* ------------------------------------------------- markInvalidTransactions
\* prisma.invalidTransaction.deleteMany({})
markInvalidTransactions_deleteMany(T) ==
  /\ tasks[T].pc = "deleteMany"
  /\ markers' = {}
  /\ tasks' = [tasks EXCEPT ![T] = [@ EXCEPT !.pc = "findMany", !.cursor = 0,
                 !.runningBalance = 0, !.invalidTxns = <<>>, !.pages = 0]]
  /\ UNCHANGED <<log, nextId, ver, cache, aggr, reply, req, started, scheduled, summaries, runs>>

Finished(t, status) ==
  [t EXCEPT !.pc = "done", !.status = status, !.cursor = 0, !.pages = 0,
            !.invalidTxns = <<>>, !.day = 0]

\* one pass of the while loop: findMany, the for loop, the cursor and the
\* batched insert
markInvalidTransactions_findMany(T) ==
  /\ tasks[T].pc = "findMany"
  /\ tasks[T].pages < MaxPages
  /\ \E o \in ChronOrders(CursorRows(log, tasks[T].cursor)) :
       LET transactions == Take(AfterCursor(o, tasks[T].cursor), batchSize)
           scan == ScanPage(transactions, tasks[T].runningBalance,
                            tasks[T].invalidTxns)
           full == Len(scan.invalidTxns) >= flushSize
           data == SubSeq(scan.invalidTxns, 1, flushSize)
       IN IF transactions = <<>>
            THEN \* break
                 /\ IF tasks[T].invalidTxns = <<>>
                      THEN /\ tasks' = [tasks EXCEPT ![T] = Finished(@, "ok")]
                           /\ runs' = Append(runs, markers)
                      ELSE /\ tasks' = [tasks EXCEPT ![T].pc = "createMany"]
                           /\ UNCHANGED runs
                 /\ UNCHANGED markers
          ELSE IF full /\ ~CanInsertMarkers(markers, log, data)
            THEN \* createMany throws
                 /\ tasks' = [tasks EXCEPT ![T] = Finished(@, "failed")]
                 /\ runs' = Append(runs, markers)
                 /\ UNCHANGED markers
            ELSE /\ tasks' = [tasks EXCEPT ![T] = [@ EXCEPT
                       !.runningBalance = scan.runningBalance,
                       !.invalidTxns = IF full
                          THEN SubSeq(scan.invalidTxns, flushSize + 1,
                                      Len(scan.invalidTxns))
                          ELSE scan.invalidTxns,
                       !.cursor = transactions[Len(transactions)].id,
                       !.pages = tasks[T].pages + 1]]
                 /\ markers' = IF full THEN markers \cup SeqRange(data) ELSE markers
                 /\ UNCHANGED runs
  /\ UNCHANGED <<log, nextId, ver, cache, aggr, reply, req, started, scheduled, summaries>>

\* the insert of the remaining invalidTxns
markInvalidTransactions_createMany(T) ==
  /\ tasks[T].pc = "createMany"
  /\ IF CanInsertMarkers(markers, log, tasks[T].invalidTxns)
       THEN /\ markers' = markers \cup SeqRange(tasks[T].invalidTxns)
            /\ tasks' = [tasks EXCEPT ![T] = Finished(@, "ok")]
       ELSE /\ UNCHANGED markers
            /\ tasks' = [tasks EXCEPT ![T] = Finished(@, "failed")]
  /\ runs' = Append(runs, markers')
  /\ UNCHANGED <<log, nextId, ver, cache, aggr, reply, req, started, scheduled, summaries>>

BackgroundNext ==
  \/ \E T \in Tasks : recalculateFromTimestamp(T)
  \/ \E T \in Tasks : recalculateFromTimestamp_dayBalance(T)
  \/ \E T \in Tasks : recalculateFromTimestamp_dayTxns(T)
  \/ \E T \in Tasks : recalculateFromTimestamp_prevBalance(T)
  \/ \E T \in Tasks : recalculateFromTimestamp_upsert(T)
  \/ \E T \in Tasks : markInvalidTransactions_deleteMany(T)
  \/ \E T \in Tasks : markInvalidTransactions_findMany(T)
  \/ \E T \in Tasks : markInvalidTransactions_createMany(T)

\* the rejection surfaced to the callers of the mutations that succeeded
recalculateFromTimestamp_throws_surfaced(T) ==
  /\ tasks[T].pc \notin {"idle", "done"}
  /\ tasks' = [tasks EXCEPT ![T] = [Finished(@, "failed") EXCEPT !.row = NoRow]]
  /\ runs' = Append(runs, markers)
  /\ req' = [p \in Procs |->
               IF req[p].pc = "done" /\ req[p].resp \in {"200", "201"}
                 THEN [req[p] EXCEPT !.resp = "500 Failed to create transaction"]
                 ELSE req[p]]
  /\ UNCHANGED <<log, nextId, ver, cache, aggr, reply, started, scheduled,
                 markers, summaries>>

\* an awaited query, upsert, deleteMany, findMany or createMany of the
\* recomputation rejects: recalculateFromTimestamp rejects and the catch of
\* the setImmediate callback logs the error
recalculateFromTimestamp_throws(T) ==
  /\ tasks[T].pc \notin {"idle", "done"}
  /\ tasks' = [tasks EXCEPT ![T] = [Finished(@, "failed") EXCEPT !.row = NoRow]]
  /\ runs' = Append(runs, markers)
  /\ UNCHANGED <<log, nextId, ver, cache, aggr, reply, req, started, scheduled,
                 markers, summaries>>

\* the requests together with the recomputations they schedule
ServerInit ==
  /\ log \in {{}, {[id |-> 1, timestamp |-> 1, type |-> "IN", amount |-> 1],
                  [id |-> 2, timestamp |-> 2, type |-> "OUT", amount |-> 1]}}
  /\ nextId = Cardinality(log) + 1
  /\ ver = 0
  /\ cache = [k \in Instants |-> [val |-> NoVal, ver |-> 0]]
  /\ aggr = NoAggr
  /\ reply = <<>>
  /\ req = [p \in Procs |-> Idle]
  /\ started = 0
  /\ scheduled = <<>>
  /\ markers = {}
  /\ summaries = [d \in Days |-> NoRow]
  /\ tasks = [T \in Tasks |-> NoTask]
  /\ runs = <<>>

ServerNext == Next \/ BackgroundNext

ServerSpec == ServerInit /\ [][ServerNext]_vars

\* the single-record mutations on a ledger that holds a transaction at each
\* instant
LedgerSpec == ServerInit /\ [][MutationNext]_vars

\* a recomputation together with the mutations that schedule it, any step
\* of which may reject
RecoveryNext ==
  \/ MutationNext
  \/ BackgroundNext
  \/ \E T \in Tasks : recalculateFromTimestamp_throws(T)

\* the server takes one more request: the ledger holds a transaction at each
\* instant or none
RecoveryInit ==
  /\ log \in {{}, {[id |-> 1, timestamp |-> 1, type |-> "IN", amount |-> 1],
                  [id |-> 2, timestamp |-> MaxTs, type |-> "OUT", amount |-> 1]}}
  /\ nextId = Cardinality(log) + 1
  /\ ver = 0
  /\ cache = [k \in Instants |-> [val |-> NoVal, ver |-> 0]]
  /\ aggr = NoAggr
  /\ reply = <<>>
  /\ req = [p \in Procs |-> Idle]
  /\ started = MaxReqs - 1
  /\ scheduled = <<>>
  /\ markers = {}
  /\ summaries = [d \in Days |-> NoRow]
  /\ tasks = [T \in Tasks |-> NoTask]
  /\ runs = <<>>

RecoverySpec == RecoveryInit /\ [][RecoveryNext]_vars

\* ------------------------------------- the detector alone, on a fixed log
\* the ledgers of at most MaxLog rows
RowsIn == [timestamp : Instants, type : {"IN", "OUT"}, amount : 1..MaxLogAmt]

Stored(f) ==
  {[id |-> i, timestamp |-> f[i].timestamp, type |-> f[i].type,
    amount |-> f[i].amount] : i \in DOMAIN f}

LogsOf(n) == {Stored(f) : f \in [1..n -> RowsIn]}

\* the ledgers among them whose amounts are the smallest or the largest and
\* whose ids follow the order of (timestamp, type, amount): one ledger for
\* each multiset of such rows
NotAfter(a, b) ==
  \/ a.timestamp < b.timestamp
  \/ a.timestamp = b.timestamp /\ a.type = "IN" /\ b.type = "OUT"
  \/ a.timestamp = b.timestamp /\ a.type = b.type /\ a.amount <= b.amount

OrderedLogsOf(n) ==
  {Stored(f) : f \in {g \in [1..n -> {r \in RowsIn : r.amount \in {1, MaxLogAmt}}] :
                        \A i, j \in 1..n : i < j => NotAfter(g[i], g[j])}}

DetectorInit ==
  /\ log \in UNION {LogsOf(n) : n \in 0..MaxLog}
  /\ nextId = Cardinality(log) + 1
  /\ ver = 0
  /\ cache = [k \in Instants |-> [val |-> NoVal, ver |-> 0]]
  /\ aggr = NoAggr
  /\ reply = <<>>
  /\ req = [p \in Procs |-> Idle]
  /\ started = 0
  /\ scheduled = <<>>
  /\ markers = {}
  /\ summaries = [d \in Days |-> NoRow]
  /\ tasks = [T \in Tasks |-> IF T = 1 THEN [NoTask EXCEPT !.pc = "deleteMany"]
                                       ELSE NoTask]
  /\ runs = <<>>

\* markInvalidTransactions() is called again once the previous run has ended
markInvalidTransactions_again ==
  /\ tasks[1].pc = "done"
  /\ Len(runs) < MaxRuns
  /\ tasks' = [tasks EXCEPT ![1] = [NoTask EXCEPT !.pc = "deleteMany"]]
  /\ UNCHANGED <<log, nextId, ver, cache, aggr, reply, req, started, scheduled, markers,
                 summaries, runs>>

DetectorNext ==
  \/ markInvalidTransactions_deleteMany(1)
  \/ markInvalidTransactions_findMany(1)
  \/ markInvalidTransactions_createMany(1)
  \/ markInvalidTransactions_again

DetectorSpec == DetectorInit /\ [][DetectorNext]_vars

\* the detector on one ledger for each multiset of rows of the smallest and
\* the largest amount
ScanInit ==
  /\ log \in UNION {OrderedLogsOf(n) : n \in 0..MaxLog}
  /\ nextId = Cardinality(log) + 1
  /\ ver = 0
  /\ cache = [k \in Instants |-> [val |-> NoVal, ver |-> 0]]
  /\ aggr = NoAggr
  /\ reply = <<>>
  /\ req = [p \in Procs |-> Idle]
  /\ started = 0
  /\ scheduled = <<>>
  /\ markers = {}
  /\ summaries = [d \in Days |-> NoRow]
  /\ tasks = [T \in Tasks |-> IF T = 1 THEN [NoTask EXCEPT !.pc = "deleteMany"]
                                       ELSE NoTask]
  /\ runs = <<>>

ScanSpec == ScanInit /\ [][DetectorNext]_vars

\* ------------------------- recalculateFromTimestamp alone, on a fixed log
\* a DailySummary row left by a recomputation of an earlier log
StaleRow == [balance |-> 1, percentChange |-> 0, transactionCount |-> 1,
             inAmount |-> 1, outAmount |-> 0]

SummaryInit ==
  /\ log \in UNION {OrderedLogsOf(n) : n \in 0..MaxLog}
  /\ nextId = Cardinality(log) + 1
  /\ ver = 0
  /\ cache = [k \in Instants |-> [val |-> NoVal, ver |-> 0]]
  /\ aggr = NoAggr
  /\ reply = <<>>
  /\ req = [p \in Procs |-> Idle]
  /\ started = 0
  /\ scheduled = <<>>
  /\ markers = {}
  /\ summaries \in {[d \in Days |-> NoRow], [d \in Days |-> StaleRow]}
  /\ \E fromTimestamp \in Instants :
       tasks = [T \in Tasks |->
                  IF T = 1 THEN [NoTask EXCEPT !.pc = "dayBalance",
                                               !.root = fromTimestamp,
                                               !.day = DayOf(fromTimestamp)]
                           ELSE NoTask]
  /\ runs = <<>>

\* recalculateFromTimestamp(fromTimestamp) is called again with the same
\* fromTimestamp once the previous call has returned
recalculateFromTimestamp_again ==
  /\ tasks[1].pc = "done"
  /\ Len(runs) < MaxRuns
  /\ tasks' = [tasks EXCEPT ![1] = [NoTask EXCEPT !.pc = "dayBalance",
                 !.root = tasks[1].root, !.day = DayOf(tasks[1].root)]]
  /\ UNCHANGED <<log, nextId, ver, cache, aggr, reply, req, started, scheduled, markers,
                 summaries, runs>>

SummaryNext ==
  \/ recalculateFromTimestamp_dayBalance(1)
  \/ recalculateFromTimestamp_dayTxns(1)
  \/ recalculateFromTimestamp_prevBalance(1)
  \/ recalculateFromTimestamp_upsert(1)
  \/ markInvalidTransactions_deleteMany(1)
  \/ markInvalidTransactions_findMany(1)
  \/ markInvalidTransactions_createMany(1)
  \/ recalculateFromTimestamp_again

SummarySpec == SummaryInit /\ [][SummaryNext]_vars

\* ------------------------------- creates served one after the other
\* POST / is received when no other request is being served
Sequential(p) == Fresh(p) /\ \A q \in Procs : req[q].pc \in {"idle", "done"}

\* well-formed creates, each started after the response to the one before,
\* and the recomputations their setImmediate callbacks run
SequentialNext ==
  \/ \E p \in Procs :
       Sequential(p) /\ \E body \in ValidBodyIn : createTransaction_body(p, body)
  \/ \E p \in Procs : getBalanceAtTimestamp_get(p)
  \/ \E p \in Procs : getBalanceAtTimestamp_query(p)
  \/ \E p \in Procs : getBalanceAtTimestamp_setEx(p)
  \/ \E p \in Procs : createTransaction_write(p)
  \/ \E p \in Procs : invalidateBalanceCache_keys(p)
  \/ \E p \in Procs : invalidateBalanceCache_del(p)
  \/ BackgroundNext

SequentialSpec == Init /\ [][SequentialNext]_vars

\* ------------------------------------------------ getBalancesAtTimestamps
\* The batch query. Its select list applies SUM(...) OVER (ORDER BY
\* timestamp_bucket) to t.type and t.amount while the query is grouped by
\* timestamp_bucket alone, and its IN list is one bound parameter holding the
\* dates joined with commas: the database rejects the statement whatever the
\* log and the instants are, so the await rejects and no map is returned.
getBalancesAtTimestamps(l, timestamps) == [rejected |-> TRUE, balanceMap |-> <<>>]

InstantsIn == UNION {[1..n -> Instants] : n \in 0..MaxInstants}

\* a call of getBalancesAtTimestamps(timestamps) on the stored log
getBalancesAtTimestamps_call ==
  /\ \E timestamps \in InstantsIn :
       reply' = [timestamps |-> timestamps,
                 result |-> getBalancesAtTimestamps(log, timestamps)]
  /\ UNCHANGED <<log, nextId, ver, cache, aggr, req, started, scheduled,
                 markers, summaries, tasks, runs>>

BalancesInit ==
  /\ log \in UNION {LogsOf(n) : n \in 0..MaxLog}
  /\ nextId = Cardinality(log) + 1
  /\ ver = 0
  /\ cache = [k \in Instants |-> [val |-> NoVal, ver |-> 0]]
  /\ aggr = NoAggr
  /\ reply = <<>>
  /\ req = [p \in Procs |-> Idle]
  /\ started = 0
  /\ scheduled = <<>>
  /\ markers = {}
  /\ summaries = [d \in Days |-> NoRow]
  /\ tasks = [T \in Tasks |-> NoTask]
  /\ runs = <<>>

BalancesSpec == BalancesInit /\ [][getBalancesAtTimestamps_call]_vars

\* ====================================================== properties
\* the balance function B(t) of the ledger
RECURSIVE SumAmount(_)
SumAmount(S) ==
  IF S = {} THEN 0
  ELSE LET r == CHOOSE x \in S : TRUE IN r.amount + SumAmount(S \ {r})

B(l, t) == SumAmount({r \in l : r.timestamp <= t /\ r.type = "IN"})
           - SumAmount({r \in l : r.timestamp <= t /\ r.type = "OUT"})

Quiescent == \A p \in Procs : req[p].pc \in {"idle", "done"}

Mutation(p) == req[p].kind \in {"create", "update", "delete"}

\* the mutation of p is committed (its write is in the log)
Committed(p) ==
  /\ Mutation(p)
  /\ \/ req[p].pc \in {"keys", "del"}
     \/ req[p].pc = "done" /\ req[p].resp \in {"200", "201"}

\* the invalidation of the committed mutation of p has completed
Invalidated(p) ==
  /\ req[p].pc = "done"
  /\ \/ Mutation(p) /\ req[p].resp \in {"200", "201"}
     \/ req[p].kind = "bulk" /\ req[p].resp = "201"

\* C1: two OUT mutations (create / update) of different transactions at the
\* same instant whose balance checks read the same balance from the same
\* state of the log are never both committed when their combined amount
\* exceeds that balance.
C1_NoJointOverdraw ==
  \A p, q \in Procs :
    ( /\ p # q
      /\ Committed(p) /\ Committed(q)
      /\ req[p].kind \in {"create", "update"} /\ req[q].kind \in {"create", "update"}
      /\ req[p].type = "OUT" /\ req[q].type = "OUT"
      /\ req[p].txn # req[q].txn
      /\ req[p].timestamp = req[q].timestamp
      /\ req[p].balVer = req[q].balVer
      /\ req[p].bal = req[q].bal )
    => req[p].amount + req[q].amount <= req[p].bal

\* what getBalanceAtTimestamp(t) returns when it is called in this state
balanceAt(t) == IF cache[t].val # NoVal THEN cache[t].val ELSE BalanceQuery(log, t)

\* C2: with no request in flight, balanceAt(t) is, for every instant t, the
\* signed sum of the transactions of the log with timestamp <= t.
C2_BalanceAtIsSignedSum ==
  Quiescent => \A t \in Instants : balanceAt(t) = B(log, t)

\* C3: the step of a create of an OUT transaction whose amount is greater
\* than the balance getBalanceAtTimestamp returned ends the request with the
\* insufficient-balance response and leaves the log as it was.
C3_CreateOverBalanceRejected ==
  [][\A p \in Procs :
       ( /\ req[p].kind = "create" /\ req[p].pc = "write"
         /\ req[p].type = "OUT" /\ req[p].amount > req[p].bal
         /\ req'[p] # req[p] )
       => ( /\ req'[p].pc = "done"
            /\ req'[p].resp = "400 Insufficient balance"
            /\ log' = log )]_vars

C3_Witness ==
  \E p \in Procs : /\ req[p].kind = "create" /\ req[p].pc = "done"
                   /\ req[p].resp = "400 Insufficient balance"

\* C4: an update reads the balance at its resulting instant without the
\* updated transaction, and when the resulting type is OUT and the resulting
\* amount is greater than that balance its step ends the request with the
\* insufficient-balance response and leaves every stored record as it was.
C4_UpdateOverBalanceRejected ==
  [][\A p \in Procs :
       /\ (req[p].pc = "excluding" /\ req'[p] # req[p])
            => req'[p].bal =
                 B({r \in log : r.id # req[p].txn}, req[p].timestamp)
       /\ ( /\ req[p].kind = "update" /\ req[p].pc = "write"
            /\ req[p].type = "OUT" /\ req[p].amount > req[p].bal
            /\ req'[p] # req[p] )
          => ( /\ req'[p].pc = "done"
               /\ req'[p].resp = "400 Insufficient balance"
               /\ log' = log )]_vars

C4_Witness ==
  \E p \in Procs : /\ req[p].kind = "update" /\ req[p].pc = "done"
                   /\ req[p].resp = "400 Insufficient balance"

\* C5: once the invalidation of a committed mutation rooted at t (a bulk
\* load: of every instant) has completed, no cached balance keyed >= t was
\* computed from the log as it was before the mutation.
C5_NoStaleEntryAfterInvalidation ==
  \A p \in Procs :
    Invalidated(p) =>
      \A k \in Instants :
        (k >= req[p].root /\ cache[k].val # NoVal) => cache[k].ver >= req[p].commitVer

\* C6: the delete step of invalidateBalanceCache(t) leaves every cached
\* balance keyed by an instant earlier than t as it was.
C6_EarlierEntriesKept ==
  [][\A p \in Procs :
       (req[p].pc = "del" /\ req'[p] # req[p])
       => \A k \in Instants : k < req[p].root => cache'[k] = cache[k]]_vars

C6_Witness ==
  \E p \in Procs : \E k \in Instants :
    /\ Invalidated(p) /\ Mutation(p)
    /\ k < req[p].root /\ cache[k].val # NoVal

\* the detector of the design: one chronological pass o over the whole log,
\* running balance 0 before the first transaction
RECURSIVE Running(_, _)
Prospective(o, i) ==
  IF o[i].type = "IN" THEN Running(o, i - 1) + o[i].amount
                      ELSE Running(o, i - 1) - o[i].amount
Running(o, i) == IF i = 0 THEN 0 ELSE Max0(Prospective(o, i))
Marked(o) == {o[i].id : i \in {j \in 1..Len(o) : Prospective(o, j) < 0}}

\* C7: when a run of markInvalidTransactions has ended, the marker set and
\* the running balance are those of one chronological pass over the whole
\* log: marked iff the prospective balance is negative, running balance
\* max(0, prospective) after every transaction.
C7_DetectorMarkerSet ==
  tasks[1].pc = "done" =>
    \E o \in ChronOrders(log) :
      /\ markers = Marked(o)
      /\ tasks[1].runningBalance = Running(o, Len(o))

\* C8: two consecutive runs of markInvalidTransactions over an unchanged log
\* leave the same set of marked transaction ids.
C8_DetectorIdempotent ==
  Len(runs) = 2 => runs[1] = runs[2]

\* nothing is in flight, scheduled or running
Settled ==
  /\ Quiescent
  /\ scheduled = <<>>
  /\ \A T \in Tasks : tasks[T].pc \in {"idle", "done"}

\* the transactions every chronological pass marks
MustMark(l) == {i \in Ids(l) : \A o \in ChronOrders(l) : i \in Marked(o)}

\* C9: when a bulk load has completed and nothing is left in flight,
\* scheduled or running, every transaction that drives the chronological
\* running balance negative carries a marker (the detector has run on the
\* loaded log without a further mutation).
C9_BulkLoadIsReconciled ==
  \A p \in Procs :
    (Settled /\ req[p].kind = "bulk" /\ req[p].resp = "201" /\ req[p].commitVer = ver)
    => MustMark(log) \subseteq markers

\* C10: when nothing is left in flight and every committed mutation has
\* scheduled a recomputation that has ended, the marker set is the one a
\* chronological pass of the detector over the final log leaves.
C10_MarkersOfFinalLog ==
  (Settled /\ Len(runs) = ver)
  => \E o \in ChronOrders(log) : markers = Marked(o)

\* C11: when nothing is left in flight and every committed mutation has
\* scheduled a recomputation that has ended, the DailySummary row of the
\* current day exists and every row that was written holds the balance, the
\* percentage change and the in / out / count aggregates of the final log.
C11_SummariesOfFinalLog ==
  (Settled /\ Len(runs) = ver /\ ver > 0)
  => /\ summaries[Today] # NoRow
     /\ \A d \in Days : summaries[d] # NoRow => summaries[d] = DayRow(log, d)

\* C12: a cache call that fails does not change the outcome of a request:
\* the balance handed to the gate is the cached or the recomputed one, a
\* committed create / update / delete ends with its success response and a
\* bulk load whose records are inserted ends with 201, the log as written.
C12_CacheFailureAbsorbed ==
  [][\A p \in Procs :
       /\ (req[p].pc = "get" /\ req'[p] # req[p])
            => \/ req'[p].pc = "query"
               \/ req'[p].pc = "write" /\ req'[p].bal = cache[req[p].timestamp].val
       /\ (req[p].pc = "setEx" /\ req'[p] # req[p])
            => req'[p].pc = "write" /\ req'[p].bal = req[p].bal
       /\ (req[p].pc \in {"keys", "del"} /\ req'[p] # req[p])
            => /\ log' = log
               /\ \/ req'[p].pc = "del"
                  \/ req'[p].pc = "done" /\ req'[p].resp = Success(req[p].kind)
       /\ (req[p].pc = "flushDb" /\ req'[p] # req[p])
            => log' = log /\ req'[p].pc = "done" /\ req'[p].resp = "201"]_vars

\* C13: getBalancesAtTimestamps returns, for every finite sequence of
\* instants, a map that has one entry for each distinct instant of the
\* sequence, the balance B at that instant.
C13_BalancesAtIsBalanceAt ==
  reply # <<>> =>
    /\ ~reply.result.rejected
    /\ DOMAIN reply.result.balanceMap = SeqRange(reply.timestamps)
    /\ \A t \in SeqRange(reply.timestamps) :
         reply.result.balanceMap[t] = B(log, t)

\* C14: the write step of a valid create accepts it (the record is added to
\* the log, the request goes on to the invalidation) whenever its type is IN
\* or its type is OUT and its amount is at most the balance that
\* getBalanceAtTimestamp returned, equality included; the balance returned
\* is the cached entry or the SUM query's result.
C14_CreateWithinBalanceAccepted ==
  [][\A p \in Procs :
       /\ (req[p].pc = "query" /\ req'[p] # req[p])
            => req'[p].bal = B(log, req[p].timestamp)
       /\ ( /\ req[p].kind = "create" /\ req[p].pc = "write"
            /\ req'[p] # req[p]
            /\ req[p].type = "IN" \/ req[p].amount <= req[p].bal )
          => /\ req'[p].pc = "keys"
             /\ log' = log \cup {[id |-> nextId, timestamp |-> req[p].timestamp,
                                   type |-> req[p].type, amount |-> req[p].amount]}]_vars

\* an OUT whose amount equals the balance read is committed
C14_Witness ==
  \E p \in Procs :
    /\ req[p].kind = "create" /\ req[p].type = "OUT" /\ req[p].pc = "keys"
    /\ req[p].amount = req[p].bal
    /\ \E r \in log : r.id = req[p].txn /\ r.type = "OUT"

\* a bulk record that breaks a validation rule: a field is missing, the type
\* is not IN / OUT, the timestamp does not parse or lies in the future, the
\* amount does not parse or is not positive
InvalidRecord(r) ==
  \/ r.timestamp = Absent \/ r.type = "" \/ r.amount = Absent
  \/ r.type \notin {"IN", "OUT"}
  \/ r.timestamp \notin Instants
  \/ r.amount \in {NotANumber, ZeroStr} \/ r.amount <= 0

\* C15: a bulk load with at least one invalid record, at whatever position,
\* is answered with a 400 and writes no record of the batch to the log.
C15_BulkRejectedAsAWhole ==
  [][\A p \in Procs, transactions \in BatchIn :
       ( /\ createBulkTransactions_body(p, transactions)
         /\ \E i \in 1..Len(transactions) : InvalidRecord(transactions[i]) )
       => /\ log' = log
          /\ req'[p].pc = "done"
          /\ req'[p].resp \in {"400 Invalid transaction data",
                                "400 Invalid transaction type",
                                "400 Invalid timestamp", "400 Invalid amount"}]_vars

\* a batch was rejected for its amount while the log holds loaded records
C15_Witness ==
  \E p \in Procs :
    /\ req[p].kind = "bulk" /\ req[p].resp = "400 Invalid amount"
    /\ nextId > 2

SameFields(r1, r2) ==
  r1.timestamp = r2.timestamp /\ r1.type = r2.type /\ r1.amount = r2.amount

\* C16: a bulk load inserts no record whose timestamp, type and amount equal
\* those of a transaction already in the log or of an earlier record of the
\* batch.
C16_BulkSkipsDuplicates ==
  [][\A p \in Procs, transactions \in BatchIn :
       createBulkTransactions_body(p, transactions)
       => \A r \in log' \ log :
            \A r2 \in log' : (r2.id < r.id) => ~SameFields(r, r2)]_vars

\* the value a supplied amount stands for
Parsed(amount) == IF amount = ZeroStr THEN 0 ELSE amount

BadType(type) == type \notin {"", "IN", "OUT"}
BadAmount(amount) ==
  amount # Absent /\ (amount = NotANumber \/ Parsed(amount) <= 0)

\* C17: an update of a stored transaction whose body supplies a type that is
\* neither IN nor OUT, or an amount that is zero, negative or not a number
\* (a number or a string), ends at its validation with the 400 response for
\* that field and the log unchanged.
C17_UpdateValidatesTypeAndAmount ==
  [][\A p \in Procs, id \in Ids(log), body \in PartialBodyIn :
       ( /\ Free(p) /\ updateTransaction_body(p, id, body)
         /\ BadType(body.type) \/ BadAmount(body.amount) )
       => /\ log' = log
          /\ req'[p].pc = "done"
          /\ req'[p].resp = IF BadType(body.type)
                               THEN "400 Invalid transaction type"
                               ELSE "400 Amount must be a positive number"]_vars

\* the rule of the create validation a body breaks (bodies break at most one)
BrokenRule(body) ==
  IF body.timestamp = Absent \/ body.type = "" \/ body.amount = Absent
    THEN "400 Missing required fields"
  ELSE IF body.type \notin {"IN", "OUT"} THEN "400 Invalid transaction type"
  ELSE IF body.timestamp = NotANumber THEN "400 Invalid timestamp format"
  ELSE IF body.timestamp > MaxTs THEN "400 Cannot use future timestamp"
  ELSE IF BadAmount(body.amount) THEN "400 Amount must be a positive number"
  ELSE "ok"

\* C18: a create whose body has a missing field, a type outside {IN, OUT},
\* an unparseable timestamp, a future timestamp or a non-positive amount ends
\* at its validation with the 400 response of the rule it breaks, and the
\* log is unchanged.
C18_CreateValidationNamesRule ==
  [][\A p \in Procs, body \in BodyIn :
       ( /\ Free(p) /\ createTransaction_body(p, body)
         /\ BrokenRule(body) # "ok" )
       => /\ log' = log
          /\ req'[p].pc = "done"
          /\ req'[p].resp = BrokenRule(body)]_vars

\* C19: when invalidateBalanceCache has completed after an accepted create,
\* update or delete, the cached invalid-transaction count is not present and
\* no cached statistics entry computed before the mutation is present.
C19_AggregatesInvalidated ==
  [][\A p \in Procs :
       (req[p].pc = "del" /\ req'[p].pc = "done")
       => /\ aggr'.count = NoVal
          /\ aggr'.stats = NoStats \/ aggr'.stats.ver >= req[p].commitVer]_vars

Earlier(a, b) == IF a < b THEN a ELSE b

\* C20: the write step of a committed mutation roots its recomputation at
\* the new timestamp (create), no later than the timestamp the deleted
\* transaction had (delete), no later than the earlier of the timestamp the
\* transaction had and its new one (update); the invalidation deletes the
\* cached balances from that root on and the recomputation is scheduled
\* with it.
C20_RecomputationRoot ==
  [][\A p \in Procs :
       /\ (req[p].pc = "write" /\ req'[p].pc = "keys")
            => IF req[p].kind = "create"
                 THEN req'[p].root = req[p].timestamp
               ELSE IF req[p].kind = "delete"
                 THEN req'[p].root <= Row(log, req[p].txn).timestamp
               ELSE req'[p].root <= Earlier(Row(log, req[p].txn).timestamp,
                                            req[p].timestamp)
       /\ (req[p].pc = "del" /\ req'[p].pc = "done")
            => /\ scheduled' = Append(scheduled, req[p].root)
               /\ \A k \in req[p].keys :
                    k >= req[p].root => cache'[k].val = NoVal]_vars

\* C21: every step of the recomputation an accepted create, update or delete
\* triggers comes after the response to that request: no step of the cache
\* invalidation is taken while the response is outstanding, the step that
\* queues the recalculation is the step that responds, and a recalculation
\* begins from the queue only.
C21_ResponseBeforeRecomputation ==
  [][/\ \A p \in Procs :
          /\ (req[p].pc \in {"keys", "del"} /\ req'[p] # req[p])
               => req[p].resp # ""
          /\ (Len(scheduled') > Len(scheduled) /\ req'[p] # req[p])
               => req'[p].pc = "done" /\ req'[p].resp = Success(req[p].kind)
     /\ \A T \in Tasks :
          (tasks[T].pc \in {"idle", "done"} /\ tasks'[T] # tasks[T])
          => /\ scheduled # <<>>
             /\ tasks'[T].root = Head(scheduled)
             /\ \A p \in Procs : req'[p] = req[p]]_vars

\* a recomputation ends in failure in this step
Fails(T) ==
  /\ tasks[T].pc \notin {"idle", "done"}
  /\ tasks'[T].pc = "done" /\ tasks'[T].status = "failed"

\* C22: a step in which a background recomputation fails leaves the log,
\* with the committed change of the mutation that scheduled it, as it is,
\* and leaves every request, with the success response that mutation was
\* given, as it is.
C22_RecomputationFailureIsolated ==
  [][\A T \in Tasks :
       Fails(T) => /\ log' = log
                   /\ req' = req
                   /\ \A U \in Tasks : U # T => tasks'[U] = tasks[U]]_vars

\* the recomputation of an accepted create failed before its first upsert:
\* the created transaction is in the log and the response is 201
C22_Witness ==
  \E T \in Tasks, p \in Procs :
    /\ tasks[T].pc = "done" /\ tasks[T].status = "failed"
    /\ \A d \in Days : summaries[d] = NoRow
    /\ req[p].kind = "create" /\ req[p].pc = "done" /\ req[p].resp = "201"
    /\ req[p].txn \in Ids(log)

NotFound == "404 Transaction not found"

\* C23: a delete of an id that is not in the log ends with 404 and leaves
\* the log, the cache and the scheduled work as they are; a delete of a
\* stored id removes that transaction only and schedules the recomputation
\* rooted at its timestamp; an update of an id that is not in the log, also
\* one deleted after the update's existence check, ends with 404.
C23_AbsentIdIsNotFound ==
  [][\A p \in Procs :
       /\ \A id \in 1..nextId :
            (Free(p) /\ deleteTransaction_id(p, id) /\ id \notin Ids(log))
            => /\ req'[p].pc = "done" /\ req'[p].resp = NotFound
               /\ log' = log /\ cache' = cache /\ scheduled' = scheduled
       /\ (req[p].kind = "delete" /\ req[p].pc = "write" /\ req'[p] # req[p])
            => IF req[p].txn \in Ids(log)
                 THEN /\ log' = log \ {Row(log, req[p].txn)}
                      /\ req'[p].root = Row(log, req[p].txn).timestamp
                 ELSE /\ req'[p].pc = "done" /\ req'[p].resp = NotFound
                      /\ log' = log /\ cache' = cache /\ scheduled' = scheduled
       /\ (req[p].kind = "delete" /\ req[p].pc = "del" /\ req'[p].pc = "done")
            => scheduled' = Append(scheduled, req[p].root)
       /\ \A id \in 1..nextId, body \in PartialBodyIn :
            (Free(p) /\ updateTransaction_body(p, id, body) /\ id \notin Ids(log))
            => req'[p].pc = "done" /\ req'[p].resp = NotFound /\ log' = log
       /\ ( /\ req[p].kind = "update" /\ req[p].pc = "write" /\ req'[p] # req[p]
            /\ req[p].txn \notin Ids(log)
            /\ ~InsufficientUpdate(req[p].type, req[p].amount, req[p].bal) )
          => req'[p].pc = "done" /\ req'[p].resp = NotFound /\ log' = log]_vars

EndOf(d) == StartOf(d + 1) - 1
OnDay(l, d) == {r \in l : DayOf(r.timestamp) = d}

\* the day loop of the recomputation T has ended
DaysDone(T) == tasks[T].pc \in {"deleteMany", "findMany", "createMany", "done"}

\* C25: recalculateFromTimestamp(t) on an unchanged log writes the row of
\* every day from the day of t to the current day: its upsert writes the row
\* of one such day and no other row, with the balance B(end of the day) and
\* the count and the IN and OUT amounts of the transactions of that day; when
\* the loop has ended every one of these days has its row.
C25_RowsFromRootToToday ==
  [][LET T == 1 IN
     /\ (tasks[T].pc = "upsert" /\ tasks'[T] # tasks[T])
          => LET d == tasks[T].day IN
             /\ d >= DayOf(tasks[T].root) /\ d <= Today
             /\ \A e \in Days : e # d => summaries'[e] = summaries[e]
             /\ summaries'[d].balance = B(log, EndOf(d))
             /\ summaries'[d].transactionCount = Cardinality(OnDay(log, d))
             /\ summaries'[d].inAmount
                  = SumAmount({r \in OnDay(log, d) : r.type = "IN"})
             /\ summaries'[d].outAmount
                  = SumAmount({r \in OnDay(log, d) : r.type = "OUT"})
     /\ (tasks[T].pc # "upsert") => summaries' = summaries
     /\ DaysDone(T)' =>
          \A d \in Days : d >= DayOf(tasks'[T].root) =>
             /\ summaries'[d] # NoRow
             /\ summaries'[d].balance = B(log', EndOf(d))]_vars

\* a run rooted in the current day has ended: the row of the current day
\* counts a transaction and an earlier stale row is still there
C25_Witness ==
  /\ tasks[1].pc = "done" /\ tasks[1].root = MaxTs
  /\ summaries[Today].transactionCount > 0
  /\ \E d \in Days : d < Today /\ summaries[d] = StaleRow
                     /\ Cardinality(OnDay(log, d)) # 1

\* C26: a second run of recalculateFromTimestamp with the same timestamp
\* over the unchanged log leaves every DailySummary row as the first run
\* left it: no step of it changes a row.
C26_RecalculationIdempotent ==
  [][Len(runs) >= 1 => summaries' = summaries]_vars

\* the second run has ended; the current day has a transaction and the
\* balance of the day before is not zero
C26_Witness ==
  /\ Len(runs) = 2 /\ tasks[1].pc = "done"
  /\ tasks[1].root = 1
  /\ summaries[Today].transactionCount > 0
  /\ summaries[Today].percentChange # 0

\* C27: on a log that holds an IN with the lower id and an OUT of the same
\* amount with the higher id at the same instant, and nothing else, a run of
\* the detector (which takes transactions of one timestamp in ascending id
\* order) marks nothing.
C27_TiesInIdOrder ==
  \A t \in Instants, a \in 1..MaxLogAmt :
    ( /\ log = {[id |-> 1, timestamp |-> t, type |-> "IN", amount |-> a],
                [id |-> 2, timestamp |-> t, type |-> "OUT", amount |-> a]}
      /\ tasks[1].pc = "done" )
    => markers = {}

\* C28: the paged scan of the detector is one pass over the log: it fetches
\* no more non-empty pages than the log fills (every transaction is visited
\* once and the scan ends), and when the run has ended the running balance
\* and the marker set are those of an unpaged chronological pass.
C28_PagedScanIsOnePass ==
  /\ tasks[1].pages * batchSize < Cardinality(log) + batchSize
  /\ (tasks[1].pc = "done" /\ tasks[1].status = "ok")
       => \E o \in ChronOrders(log) :
            /\ tasks[1].runningBalance = Running(o, Len(o))
            /\ markers = Marked(o)

Abs(x) == IF x < 0 THEN 0 - x ELSE x

\* the percentage change (in hundredths) a pass stores for the day d, with
\* the balance at the end of the day before
PassRow(d) == [pct |-> summaries'[d].percentChange,
                balance |-> summaries'[d].balance,
                previousBalance |-> B(log, EndOf(d - 1))]

UpsertOf(d) == tasks[1].pc = "upsert" /\ tasks[1].day = d /\ tasks'[1] # tasks[1]

\* C29 as claimed: the percentChange written for a day is 0 when the balance
\* at the end of the previous day is 0 and otherwise exactly
\* (balance - previousBalance) / previousBalance * 100, previousBalance
\* being the balance the same run computed for the preceding day.
C29_PercentChangeExact ==
  [][\A d \in Days :
       UpsertOf(d) =>
         LET s == PassRow(d) IN
         /\ (d > DayOf(tasks[1].root)) => summaries[d - 1].balance = s.previousBalance
         /\ IF s.previousBalance = 0 THEN s.pct = 0
            ELSE s.pct * s.previousBalance
                   = (s.balance - s.previousBalance) * 10000]_vars

\* C29 amended: the percentChange written for a day is 0 when the balance
\* at the end of the previous day is 0 and otherwise
\* (balance - previousBalance) / previousBalance * 100 rounded to 2 decimal
\* places, previousBalance being the balance at the end of the preceding
\* day (on the unchanged log, the one the same run computed for that day).
C29_PercentChangeRounded ==
  [][\A d \in Days :
       UpsertOf(d) =>
         LET s == PassRow(d) IN
         /\ (d > DayOf(tasks[1].root)) => summaries[d - 1].balance = s.previousBalance
         /\ IF s.previousBalance = 0 THEN s.pct = 0
            ELSE 2 * Abs(s.pct * s.previousBalance
                           - (s.balance - s.previousBalance) * 10000)
                   <= Abs(s.previousBalance)]_vars

\* a run has written a row whose percentage change is not the exact quotient
C29_Witness ==
  /\ DaysDone(1)
  /\ \E d \in Days :
       LET previousBalance == B(log, EndOf(d - 1)) IN
       /\ d > DayOf(tasks[1].root)
       /\ previousBalance # 0
       /\ summaries[d].percentChange * previousBalance
            # (summaries[d].balance - previousBalance) * 10000

\* C30: the write of an accepted update leaves every field the request
\* omitted at the value the stored transaction has when the write is made
\* (its latest committed value), also when another update of the same
\* transaction committed after this update read the existing record.
C30_OmittedFieldsKept ==
  [][\A p \in Procs :
       (req[p].kind = "update" /\ req[p].pc = "write" /\ req'[p].pc = "keys")
       => LET before == Row(log, req[p].txn)
              after == Row(log', req[p].txn)
          IN /\ "timestamp" \in req[p].omitted => after.timestamp = before.timestamp
             /\ "type" \in req[p].omitted => after.type = before.type
             /\ "amount" \in req[p].omitted => after.amount = before.amount]_vars

\* C31: whenever no request is in flight, every cached balance entry keyed k
\* holds B(k) of the current log: a read that computed its value before a
\* mutation at an instant <= k committed has not left that value in the
\* cache once the invalidation of the mutation has run.
C31_CachedEntriesCurrent ==
  Quiescent =>
    \A k \in Instants : cache[k].val # NoVal => cache[k].val = B(log, k)

\* the stored transactions were created in non-decreasing timestamp order
\* (ids are assigned in creation order)
NonDecreasing(l) ==
  \A r1, r2 \in l : r1.id < r2.id => r1.timestamp <= r2.timestamp

\* C32: a log built only by accepted creates served one after the other and
\* submitted in non-decreasing timestamp order has B(t) >= 0 at every
\* instant t, and the detector runs on it leave no marker.
C32_SequentialLogIsClean ==
  NonDecreasing(log) =>
    /\ \A t \in Instants : B(log, t) >= 0
    /\ markers = {}

\* the pages the next findMany of the run may return
NextPages(T) ==
  {Take(AfterCursor(o, tasks[T].cursor), batchSize) :
     o \in ChronOrders(CursorRows(log, tasks[T].cursor))}

\* C33: during every detector run the running balance is >= 0 after each
\* processed transaction, and every transaction pushed to invalidTxns or
\* given a marker is an OUT transaction, whatever the log.
C33_OnlyOutMarked ==
  \A T \in Tasks :
    /\ tasks[T].runningBalance >= 0
    /\ tasks[T].pc = "findMany" =>
         \A transactions \in NextPages(T) : \A n \in 0..Len(transactions) :
           ScanPage(Take(transactions, n), tasks[T].runningBalance,
                    <<>>).runningBalance >= 0
    /\ \A id \in markers \cup SeqRange(tasks[T].invalidTxns) :
         id \in Ids(log) /\ Row(log, id).type = "OUT"

\* a run has marked an OUT transaction and gone on to an IN transaction
C33_Witness ==
  /\ tasks[1].pc = "done" /\ tasks[1].status = "ok"
  /\ \E id \in markers : \E r \in log :
       r.type = "IN" /\ Row(log, id).timestamp < r.timestamp
====
